---- MODULE Spec2Model ----
(***************************************************************************)
(* Commit-graph construction, concurrent enrichment and layout/metrics of  *)
(* backend/analyzer (repo_analyzer.py, graph_processor.py) and the         *)
(* /api/v1/analyze handler of backend/api/routes.py.                       *)
(*                                                                         *)
(* Spec        one run of RepositoryAnalyzer.analyze_repository under the  *)
(*             asyncio scheduler, followed by the route handler.           *)
(* SpecLayout  GraphProcessor.process_for_visualization applied to the     *)
(*             graph built from a page of commit records.                  *)
(*                                                                         *)
(* SHAs are opaque in the code (compared for equality, and hashed where    *)
(* networkx keeps them in a set), so a page of n records carries the SHAs  *)
(* 1..n in page order; 0 is a SHA that is not in the page.  Texts are      *)
(* records [kind, sha, idx, len]: what the text is about and its length in *)
(* characters.  A record of the page that lacks a key is a record without  *)
(* that field.                                                             *)
(***************************************************************************)
EXTENDS Integers, Sequences, FiniteSets, TLC

VARIABLES
    commits,           \* the page the host returns to _fetch_commits
    outcome,           \* per SHA: what the host and the summarizer answer
    fetched,           \* _fetch_commits returned the page
    pc,                \* position of analyze_repository
    commit_graph,      \* self.commit_graph
    commit_summaries,  \* self.commit_summaries
    task,              \* per SHA: the _analyze_single_commit coroutine
    session_open,      \* the aiohttp session of analyze_repository
    ret,               \* what analyze_repository returned
    archive,           \* the file written by _save_commit_summaries
    http,              \* status the route handler answered with (0: not yet)
    graph,             \* GraphProcessor.graph
    layout,            \* GraphProcessor.layout
    viz,               \* result of process_for_visualization
    nx_trivial_paths,  \* the installed networkx counts the one-node path
                       \* as a simple path from a node to itself
    hash_seed          \* the interpreter's string-hash seed (PYTHONHASHSEED),
                       \* drawn once per process

vars == <<commits, outcome, fetched, pc, commit_graph, commit_summaries, task,
          session_open, ret, archive, http, graph, layout, viz, nx_trivial_paths,
          hash_seed>>

analyzerVars == <<fetched, pc, commit_graph, commit_summaries, task, session_open, ret,
                  archive, http>>
engineVars == <<graph, layout, viz>>
libraryVars == <<nx_trivial_paths, hash_seed>>

----------------------------------------------------------------------------
(* Bounds of the model *)

MaxTasks == 2      \* records per page in Spec
MaxCommits == 3    \* records per page in SpecLayout
MaxParents == 2    \* parent SHAs listed by one record
MaxAuthorPage == 4 \* records per page of the pages that vary the authors only

(* Program constants *)

CodeCap == 500     \* [:500] in _fetch_commit_code
PatchCap == 1000   \* [:1000] in _analyze_with_gpt4
ZScale == 10       \* levels[node] * 10
LayoutScale == 100 \* scale=100 in the call of multipartite_layout
CurveOffset == 20  \* offset = 20 in _calculate_control_point

----------------------------------------------------------------------------
(* Generic helpers *)

Range(s) == {s[i] : i \in 1..Len(s)}

Min(a, b) == IF a <= b THEN a ELSE b

Max(a, b) == IF a >= b THEN a ELSE b

RECURSIVE SeqsUpTo(_, _)
(* sequences of distinct elements of S, of length at most n *)
SeqsUpTo(S, n) ==
    IF n = 0 THEN {<<>>}
    ELSE LET shorter == SeqsUpTo(S, n - 1)
         IN  shorter \cup {Append(q, x) : q \in shorter, x \in S}

DistinctSeqs(S, n) ==
    {q \in SeqsUpTo(S, n) : \A i, j \in 1..Len(q) : i # j => q[i] # q[j]}

RECURSIVE SumSeq(_)
SumSeq(s) == IF s = <<>> THEN 0 ELSE Head(s) + SumSeq(Tail(s))

RECURSIVE Flatten(_)
Flatten(ss) == IF ss = <<>> THEN <<>> ELSE Head(ss) \o Flatten(Tail(ss))

RECURSIVE MaxOver(_)
MaxOver(S) ==
    IF S = {} THEN 0
    ELSE LET x == CHOOSE x \in S : TRUE IN Max(x, MaxOver(S \ {x}))

(* a float quotient is kept as the fraction [num, den] *)
Fraction(a, b) == [num |-> a, den |-> b]

FracEq(f, k) == f.num = k * f.den

----------------------------------------------------------------------------
(* Texts *)

Text(kind, sha, idx, len) == [kind |-> kind, sha |-> sha, idx |-> idx, len |-> len]

Literal(kind, len) == Text(kind, 0, 0, len)

Truncate(t, cap) == [t EXCEPT !.len = Min(t.len, cap)]

NoCodeAvailable == Literal("No code available", 17)
NoCodeChanges == Literal("No code changes available", 25)
NoChanges == Literal("No changes", 10)
AnalysisFailed == Literal("Analysis failed", 15)

----------------------------------------------------------------------------
(* networkx.DiGraph: nodes and edges in insertion order, one attribute     *)
(* dict per node (a function whose domain is the set of keys present).     *)

EmptyGraph == [nodes |-> <<>>, edges |-> <<>>, attrs |-> <<>>]

NodeSet(G) == Range(G.nodes)

EdgeSet(G) == Range(G.edges)

DictUpdate(d, e) ==
    [k \in DOMAIN d \cup DOMAIN e |-> IF k \in DOMAIN e THEN e[k] ELSE d[k]]

AddNode(G, n, a) ==
    IF n \in NodeSet(G)
    THEN [G EXCEPT !.attrs[n] = DictUpdate(@, a)]
    ELSE [G EXCEPT !.nodes = Append(@, n),
                   !.attrs = [m \in NodeSet(G) \cup {n} |->
                                 IF m = n THEN a ELSE G.attrs[m]]]

AddEdge(G, u, v) ==
    LET G2 == AddNode(AddNode(G, u, <<>>), v, <<>>)
    IN  IF <<u, v>> \in EdgeSet(G2) THEN G2
        ELSE [G2 EXCEPT !.edges = Append(@, <<u, v>>)]

UpdateNode(G, n, a) == [G EXCEPT !.attrs[n] = DictUpdate(@, a)]

InDegree(G, n) == Cardinality({e \in EdgeSet(G) : e[2] = n})

OutDegree(G, n) == Cardinality({e \in EdgeSet(G) : e[1] = n})

(* successors of n in adjacency (edge insertion) order *)
Successors(G, n) ==
    LET pick(e) == e[1] = n
        es == SelectSeq(G.edges, pick)
    IN  [i \in 1..Len(es) |-> es[i][2]]

----------------------------------------------------------------------------
(* The host's page of commit records *)

DateString(s) == <<s, "Z">>

ParseDate(d) ==
    LET replaced == IF d[2] = "Z" THEN <<d[1], "+00:00">> ELSE d
    IN  [stamp |-> replaced[1], utcoffset |-> replaced[2]]

Authors == {"ann", "bob"}

Record(s, ps, a) ==
    [sha |-> s, parents |-> ps, author |-> a, date |-> DateString(s),
     message |-> Text("message", s, 0, 20), url |-> s]

(* every page of n records whose records list at most maxp parents, drawn  *)
(* from the page's SHAs and the absent SHA 0                               *)
PagesOf(n, maxp, authors) ==
    LET plists == DistinctSeqs(0..n, maxp)
    IN  {[i \in 1..n |-> Record(i, ps[i], au[i])] :
            ps \in [1..n -> plists], au \in [1..n -> authors]}

Pages(maxn, maxp, authors) == UNION {PagesOf(n, maxp, authors) : n \in 0..maxn}

(* a record of the page without the key k *)
WithoutKey(cs, i, k) ==
    [cs EXCEPT ![i] = [f \in DOMAIN cs[i] \ {k} |-> cs[i][f]]]

(* the pages in which one record, at any position, lacks its SHA or its    *)
(* author                                                                  *)
MalformedPages(maxn, maxp, authors) ==
    {WithoutKey(cs, i, k) : cs \in Pages(maxn, maxp, authors),
                           i \in 1..maxn, k \in {"sha", "author"}}
        \ Pages(maxn, maxp, authors)

(* the pages of more than minn records without parents, of any authors *)
AuthorPages(minn, maxn, authors) ==
    UNION {{[i \in 1..n |-> Record(i, <<>>, au[i])] : au \in [1..n -> authors]} :
              n \in (minn + 1)..maxn}

WellFormed(cs) ==
    \A i \in 1..Len(cs) : {"sha", "author"} \subseteq DOMAIN cs[i]

(* the SHAs of the records that have one *)
PageShas(cs) == {cs[i].sha : i \in {k \in 1..Len(cs) : "sha" \in DOMAIN cs[k]}}

----------------------------------------------------------------------------
(* analyze_repository, graph construction (the for loop over commits) *)

NodeAttrsOf(c) ==
    [message |-> c.message, author |-> c.author, date |-> ParseDate(c.date),
     is_initial |-> (Len(c.parents) = 0)]

RECURSIVE AddEveryParentEdge(_, _, _, _)
(* the loop over parent_shas without the test that the parent is in the    *)
(* page                                                                    *)
AddEveryParentEdge(G, cs, c, j) ==
    IF j > Len(c.parents) THEN G
    ELSE AddEveryParentEdge(AddEdge(G, c.parents[j], c.sha), cs, c, j + 1)

RECURSIVE AddParentEdges(_, _, _, _)
AddParentEdges(G, cs, c, j) ==
    IF j > Len(c.parents) THEN G
    ELSE LET parent_sha == c.parents[j]
             G2 == IF parent_sha \in PageShas(cs)
                   THEN AddEdge(G, parent_sha, c.sha) ELSE G
         IN  AddParentEdges(G2, cs, c, j + 1)

RECURSIVE BuildFrom(_, _, _)
(* the loop from record i on: self.commit_graph when it ends, and whether  *)
(* it ended in a KeyError.  commit['sha'] (line 79) and the author among   *)
(* the arguments of add_node (line 85) are read before the node is added;  *)
(* [c['sha'] for c in commits] (line 92) is read for the first parent of a *)
(* record, after its node is added.                                        *)
BuildFrom(G, cs, i) ==
    IF i > Len(cs) THEN [graph |-> G, raised |-> FALSE]
    ELSE IF ~({"sha", "author"} \subseteq DOMAIN cs[i])
    THEN [graph |-> G, raised |-> TRUE]
    ELSE LET G1 == AddNode(G, cs[i].sha, NodeAttrsOf(cs[i]))
         IN  IF cs[i].parents # <<>> /\ \E k \in 1..Len(cs) : "sha" \notin DOMAIN cs[k]
             THEN [graph |-> G1, raised |-> TRUE]
             ELSE BuildFrom(AddParentEdges(G1, cs, cs[i], 1), cs, i + 1)

BuildGraph(cs) == BuildFrom(EmptyGraph, cs, 1).graph

BuildRaises(cs) == BuildFrom(EmptyGraph, cs, 1).raised

----------------------------------------------------------------------------
(* What the host and the summarizer answer for one commit.  Fields that    *)
(* the code never reads in a scenario are fixed, so that every scenario is *)
(* listed once.                                                            *)

FileCounts == {0, 2}

Outcomes ==
    {o \in [detail : {"ok", "fail"}, nfiles : FileCounts, code : {"ok", "fail"},
            gpt : {"ok", "non200", "malformed"}] :
        /\ o.detail = "fail" => (o.nfiles = 0 /\ o.code = "ok")
        /\ o.nfiles = 0 => o.gpt = "ok"}

(* the detail response's file list: the first file has a patch, the second *)
(* (a binary file) has none                                                *)
DetailFiles(s, n) ==
    [j \in 1..n |->
        IF j = 1
        THEN [filename |-> Text("file", s, j, 8), patch |-> Text("patch", s, j, 300 * s)]
        ELSE [filename |-> Text("file", s, j, 8)]]

DictGet(d, k, default) == IF k \in DOMAIN d THEN d[k] ELSE default

----------------------------------------------------------------------------
(* _fetch_commit_code *)

FetchCommitCode(s, o) ==
    IF o.code # "ok" THEN NoCodeAvailable
    ELSE LET files == DetailFiles(s, o.nfiles)
         IN  IF files # <<>>
             THEN Truncate(DictGet(files[1], "patch", NoCodeChanges), CodeCap)
             ELSE NoCodeChanges

(* _analyze_with_gpt4: the prompt, and the value returned for a summarizer *)
(* answer that is not malformed                                            *)
GptPrompt(files) ==
    LET patches == [j \in 1..Len(files) |->
                      Truncate(DictGet(files[j], "patch",
                                       Literal("No changes available", 20)), PatchCap)]
    IN  [names |-> [j \in 1..Len(files) |-> files[j].filename],
         patches |-> patches]

SummaryOf(prompt) ==
    Text("summary", prompt.names[1].sha, Len(prompt.names),
         SumSeq([j \in 1..Len(prompt.patches) |-> prompt.patches[j].len]))

AnalyzeWithGpt4(files, o) ==
    IF o.gpt = "non200" THEN AnalysisFailed ELSE SummaryOf(GptPrompt(files))

----------------------------------------------------------------------------
(* _analyze_single_commit: the node update and the summary record *)

NodeUpdate(files, analysis, code_sample) ==
    [files_changed |-> [j \in 1..Len(files) |-> files[j].filename],
     files_count |-> Len(files),
     analysis |-> analysis,
     code |-> code_sample]

CommitSummary(c, files, analysis, code_sample) ==
    [author |-> c.author, code |-> code_sample, explanation |-> analysis,
     sha |-> c.sha, files_edited |-> Len(files)]

CommitOf(s) == commits[CHOOSE i \in 1..Len(commits) : commits[i].sha = s]

(* the node update addressed by the first record of the page instead of   *)
(* the task's own commit                                                   *)
WriteResultFirstNode(s, files, analysis, code_sample) ==
    /\ commit_graph' = UpdateNode(commit_graph, commits[1].sha,
                                  NodeUpdate(files, analysis, code_sample))
    /\ commit_summaries' =
           Append(commit_summaries, CommitSummary(CommitOf(s), files, analysis, code_sample))

(* lines 148-164: no suspension point between the two writes *)
WriteResult(s, files, analysis, code_sample) ==
    /\ commit_graph' = UpdateNode(commit_graph, s, NodeUpdate(files, analysis, code_sample))
    /\ commit_summaries' =
           Append(commit_summaries, CommitSummary(CommitOf(s), files, analysis, code_sample))

NewTask == [pc |-> "get", files |-> <<>>, code_sample |-> NoCodeAvailable]

(* the first GET of _analyze_single_commit answers; a request on a closed  *)
(* session raises                                                          *)
TaskGet(s) ==
    /\ s \in DOMAIN task
    /\ task[s].pc = "get"
    /\ task' = [task EXCEPT ![s] =
                   IF ~session_open THEN [@ EXCEPT !.pc = "raised"]
                   ELSE IF outcome[s].detail # "ok" THEN [@ EXCEPT !.pc = "done"]
                   ELSE [@ EXCEPT !.pc = "code",
                                  !.files = DetailFiles(s, outcome[s].nfiles)]]
    /\ UNCHANGED <<commits, outcome, fetched, pc, commit_graph, commit_summaries,
                   session_open, ret, archive, http, engineVars, libraryVars>>

(* _fetch_commit_code answers; with no files the result is written at once *)
TaskCode(s) ==
    /\ s \in DOMAIN task
    /\ task[s].pc = "code"
    /\ IF ~session_open
       THEN /\ task' = [task EXCEPT ![s].pc = "raised"]
            /\ UNCHANGED <<commit_graph, commit_summaries>>
       ELSE LET code_sample == FetchCommitCode(s, outcome[s])
                files == task[s].files
            IN  IF files # <<>>
                THEN /\ task' = [task EXCEPT ![s].pc = "gpt",
                                             ![s].code_sample = code_sample]
                     /\ UNCHANGED <<commit_graph, commit_summaries>>
                ELSE /\ task' = [task EXCEPT ![s].pc = "done",
                                             ![s].code_sample = code_sample]
                     /\ WriteResult(s, files, NoChanges, code_sample)
    /\ UNCHANGED <<commits, outcome, fetched, pc, session_open, ret, archive, http,
                   engineVars, libraryVars>>

(* the summarizer answers (on a session of its own): a body without        *)
(* choices/message/content raises out of the task                          *)
TaskGpt(s) ==
    /\ s \in DOMAIN task
    /\ task[s].pc = "gpt"
    /\ IF outcome[s].gpt = "malformed"
       THEN /\ task' = [task EXCEPT ![s].pc = "raised"]
            /\ UNCHANGED <<commit_graph, commit_summaries>>
       ELSE /\ task' = [task EXCEPT ![s].pc = "done"]
            /\ WriteResult(s, task[s].files,
                           AnalyzeWithGpt4(task[s].files, outcome[s]),
                           task[s].code_sample)
    /\ UNCHANGED <<commits, outcome, fetched, pc, session_open, ret, archive, http,
                   engineVars, libraryVars>>

----------------------------------------------------------------------------
(* networkx path functions used by GraphProcessor *)

RECURSIVE BfsDistance(_, _, _, _, _)
(* breadth-first search from the frontier; -1 stands for NetworkXNoPath *)
BfsDistance(G, frontier, seen, target, d) ==
    IF target \in frontier THEN d
    ELSE IF frontier = {} THEN -1
    ELSE LET next == {e[2] : e \in {f \in EdgeSet(G) : f[1] \in frontier}} \ seen
         IN  BfsDistance(G, next, seen \cup next, target, d + 1)

ShortestPathLength(G, source, target) == BfsDistance(G, {source}, {source}, target, 0)

(* nx.shortest_path_length(G, source=root): the distances of the nodes     *)
(* reachable from root                                                     *)
SingleSourceLengths(G, root) ==
    LET reached == {n \in NodeSet(G) : ShortestPathLength(G, root, n) >= 0}
    IN  [n \in reached |-> ShortestPathLength(G, root, n)]

RECURSIVE SimplePathsVia(_, _, _)
(* depth-first enumeration of the simple paths that extend path to target, *)
(* successors in adjacency order; the search does not go on through target *)
SimplePathsVia(G, path, target) ==
    LET last == path[Len(path)]
        succ == Successors(G, last)
        fresh == SelectSeq(succ, LAMBDA m : m \notin Range(path))
    IN  IF last = target THEN <<path>>
        ELSE Flatten([i \in 1..Len(fresh) |->
                         SimplePathsVia(G, Append(path, fresh[i]), target)])

(* nx.all_simple_paths(G, source, target).  For source = target networkx   *)
(* before 3.2 yields nothing and networkx from 3.2 on yields the one-node  *)
(* path; the repository pins no version.                                   *)
AllSimplePaths(G, source, target) ==
    IF source = target
    THEN IF nx_trivial_paths THEN <<(<<source>>)>> ELSE <<>>
    ELSE SimplePathsVia(G, <<source>>, target)

----------------------------------------------------------------------------
(* GraphProcessor._calculate_layout: roots, levels, and the positions of   *)
(* nx.multipartite_layout as networkx 3 computes them (layers are sets of  *)
(* nodes, sorted by level)                                                 *)

InDegreeZero(G) == SelectSeq(G.nodes, LAMBDA n : InDegree(G, n) = 0)

(* min(nodes, key=in_degree): the first node of least in-degree *)
MinInDegreeNode(G) ==
    LET i == CHOOSE i \in 1..Len(G.nodes) :
                 /\ \A j \in 1..Len(G.nodes) :
                        InDegree(G, G.nodes[i]) <= InDegree(G, G.nodes[j])
                 /\ \A j \in 1..(i - 1) :
                        InDegree(G, G.nodes[j]) > InDegree(G, G.nodes[i])
    IN  G.nodes[i]

LayoutRoots(G) ==
    IF InDegreeZero(G) # <<>> THEN InDegreeZero(G) ELSE <<MinInDegreeNode(G)>>

RECURSIVE MaxDistance(_, _, _, _, _)
(* the loop over roots of lines 85-91 *)
MaxDistance(G, roots, i, node, max_distance) ==
    IF i > Len(roots) THEN max_distance
    ELSE LET distance == ShortestPathLength(G, roots[i], node)
         IN  MaxDistance(G, roots, i + 1, node,
                         IF distance >= 0 THEN Max(max_distance, distance)
                         ELSE max_distance)

(* levels counted in nodes instead of edges *)
LevelsInNodes(G) == [n \in NodeSet(G) |-> MaxDistance(G, LayoutRoots(G), 1, n, 0) + 1]

Levels(G) == [n \in NodeSet(G) |-> MaxDistance(G, LayoutRoots(G), 1, n, 0)]

(* hash(sha) of a str: fixed for the life of the process, different from   *)
(* process to process                                                      *)
HashSeeds == {1, 4, 6, 10}

StrHash(n) == (n * hash_seed) % 11

RECURSIVE SetIteration(_)
(* iteration over a set of strings: in hash-table slot order *)
SetIteration(S) ==
    IF S = {} THEN <<>>
    ELSE LET m == CHOOSE m \in S : \A x \in S : StrHash(m) <= StrHash(x)
         IN  <<m>> \o SetIteration(S \ {m})

RECURSIVE SortedKeys(_)
SortedKeys(S) ==
    IF S = {} THEN <<>>
    ELSE LET m == CHOOSE m \in S : \A x \in S : m <= x
         IN  <<m>> \o SortedKeys(S \ {m})

(* temp_graph: a copy of the graph whose nodes carry their level as the    *)
(* attribute 'subset'                                                      *)
TempGraph(G, levels) ==
    [G EXCEPT !.attrs = [n \in NodeSet(G) |->
                            DictUpdate(G.attrs[n], [subset |-> levels[n]])]]

(* nx.utils.groups(node_to_subset), sorted by layer: one set of nodes per   *)
(* value of 'subset', each in its iteration order                          *)
Layers(T) ==
    LET keys == SortedKeys({T.attrs[n].subset : n \in NodeSet(T)})
    IN  [i \in 1..Len(keys) |->
            SetIteration({n \in NodeSet(T) : T.attrs[n].subset = keys[i]})]

Abs(a) == IF a < 0 THEN -a ELSE a

(* nx.rescale_layout on positions given in halves: subtract the mean of    *)
(* each axis, then scale so that the largest coordinate is scale; the      *)
(* result is the fraction num/den per coordinate                           *)
RescaleLayout(raw, scale) ==
    LET nodes == DOMAIN raw
        N == Cardinality(nodes)
        order == SortedKeys(nodes)
        sum_x == SumSeq([i \in 1..N |-> raw[order[i]].x])
        sum_y == SumSeq([i \in 1..N |-> raw[order[i]].y])
        centred == [n \in nodes |-> [x |-> N * raw[n].x - sum_x,
                                     y |-> N * raw[n].y - sum_y]]
        lim == MaxOver({Abs(centred[n].x) : n \in nodes}
                       \cup {Abs(centred[n].y) : n \in nodes})
    IN  [n \in nodes |->
            IF lim > 0
            THEN [x |-> Fraction(scale * centred[n].x, lim),
                  y |-> Fraction(scale * centred[n].y, lim)]
            ELSE [x |-> Fraction(0, 1), y |-> Fraction(0, 1)]]

(* nx.multipartite_layout(temp_graph, subset_key='subset', scale=100):     *)
(* layer i at x = i, its nodes at y = 0, 1, ..., each layer centred        *)
MultipartiteLayout(T, scale) ==
    LET layers == Layers(T)
        width == Len(layers)
        layerOf(n) == CHOOSE i \in 1..width : n \in Range(layers[i])
        indexOf(n) == CHOOSE j \in 1..Len(layers[layerOf(n)]) :
                          layers[layerOf(n)][j] = n
        raw == [n \in NodeSet(T) |->
                   [x |-> 2 * (layerOf(n) - 1) - (width - 1),
                    y |-> 2 * (indexOf(n) - 1) - (Len(layers[layerOf(n)]) - 1)]]
    IN  RescaleLayout(raw, scale)

CalculateLayout(G) ==
    LET levels == Levels(G)
        pos == MultipartiteLayout(TempGraph(G, levels), LayoutScale)
    IN  [n \in NodeSet(G) |->
            [x |-> pos[n].x, y |-> pos[n].y, z |-> levels[n] * ZScale]]

(* self.graph after _calculate_layout made its temporary graph without     *)
(* copying: the nodes of self.graph carry 'subset'                         *)
GraphAfterLayoutNoCopy(G) == TempGraph(G, Levels(G))

(* self.graph after _calculate_layout: temp_graph is self.graph.copy(),    *)
(* whose attribute dicts are new objects                                  *)
GraphAfterLayout(G) == G

----------------------------------------------------------------------------
(* GraphProcessor._calculate_metrics *)

(* the depth below the first root alone *)
MaxDepthFirstRoot(G, roots, i, max_depth) ==
    IF roots = <<>> THEN max_depth
    ELSE LET depths == SingleSourceLengths(G, roots[1])
         IN  Max(max_depth, MaxOver({depths[n] : n \in DOMAIN depths}))

RECURSIVE MaxDepthFrom(_, _, _, _)
(* the loop over roots of lines 240-246 *)
MaxDepthFrom(G, roots, i, max_depth) ==
    IF i > Len(roots) THEN max_depth
    ELSE LET depths == SingleSourceLengths(G, roots[i])
         IN  MaxDepthFrom(G, roots, i + 1,
                          Max(max_depth, MaxOver({depths[n] : n \in DOMAIN depths})))

(* the branch paths of the first root alone *)
BranchPathsFirstRoot(G) ==
    LET roots == InDegreeZero(G)
        leaves == SelectSeq(G.nodes, LAMBDA n : OutDegree(G, n) = 0)
    IN  IF roots = <<>> THEN <<>>
        ELSE Flatten([l \in 1..Len(leaves) |-> AllSimplePaths(G, roots[1], leaves[l])])

(* _calculate_all_branch_paths *)
CalculateAllBranchPaths(G) ==
    LET roots == InDegreeZero(G)
        leaves == SelectSeq(G.nodes, LAMBDA n : OutDegree(G, n) = 0)
    IN  Flatten([r \in 1..Len(roots) |->
                    Flatten([l \in 1..Len(leaves) |->
                                AllSimplePaths(G, roots[r], leaves[l])])])

CommitFrequency(G) ==
    LET author(n) == DictGet(G.attrs[n], "author", "Unknown")
        names == {author(n) : n \in NodeSet(G)}
    IN  [a \in names |-> Cardinality({n \in NodeSet(G) : author(n) = a})]

(* the metrics without the empty-graph return and without the max(..., 1)  *)
(* guards of the two quotients; a denominator 0 is a ZeroDivisionError     *)
CalculateMetricsUnguarded(G) ==
    LET total_commits == Len(G.nodes)
        merge_commits == Len(SelectSeq(G.nodes, LAMBDA n : InDegree(G, n) > 1))
        leaf_commits == Len(SelectSeq(G.nodes, LAMBDA n : OutDegree(G, n) = 0))
        paths == CalculateAllBranchPaths(G)
    IN  [total_commits |-> total_commits,
         max_depth |-> MaxDepthFrom(G, InDegreeZero(G), 1, 0),
         branching_factor |-> Fraction(total_commits, total_commits - merge_commits),
         leaf_commits |-> leaf_commits,
         merge_commits |-> merge_commits,
         average_branch_length |->
             Fraction(SumSeq([i \in 1..Len(paths) |-> Len(paths[i])]), Len(paths)),
         commit_frequency |-> CommitFrequency(G)]

CalculateMetrics(G) ==
    IF G.nodes = <<>>
    THEN [total_commits |-> 0, max_depth |-> 0, branching_factor |-> Fraction(0, 1),
          leaf_commits |-> 0, merge_commits |-> 0,
          average_branch_length |-> Fraction(0, 1), commit_frequency |-> <<>>]
    ELSE LET total_commits == Len(G.nodes)
             merge_commits == Len(SelectSeq(G.nodes, LAMBDA n : InDegree(G, n) > 1))
             leaf_commits == Len(SelectSeq(G.nodes, LAMBDA n : OutDegree(G, n) = 0))
             paths == CalculateAllBranchPaths(G)
         IN  [total_commits |-> total_commits,
              max_depth |-> MaxDepthFrom(G, InDegreeZero(G), 1, 0),
              branching_factor |->
                  Fraction(total_commits, Max(1, total_commits - merge_commits)),
              leaf_commits |-> leaf_commits,
              merge_commits |-> merge_commits,
              average_branch_length |->
                  Fraction(SumSeq([i \in 1..Len(paths) |-> Len(paths[i])]),
                           Max(Len(paths), 1)),
              commit_frequency |-> CommitFrequency(G)]

----------------------------------------------------------------------------
(* GraphProcessor._process_nodes, _process_edges, process_for_visualization *)

EmptyText == Literal("", 0)

IsoFormat(d) == [stamp |-> d.stamp, utcoffset |-> d.utcoffset]

ProcessNodes(G, lay) ==
    [i \in 1..Len(G.nodes) |->
        LET node == G.nodes[i]
            node_data == G.attrs[node]
        IN  [id |-> node,
             position |-> lay[node],
             data |-> [message |-> DictGet(node_data, "message", EmptyText),
                       author |-> DictGet(node_data, "author", ""),
                       date |-> IF "date" \in DOMAIN node_data
                                THEN IsoFormat(node_data.date)
                                ELSE [stamp |-> 0, utcoffset |-> ""],
                       files_count |-> DictGet(node_data, "files_count", 0),
                       is_initial |-> DictGet(node_data, "is_initial", FALSE),
                       is_merge |-> InDegree(G, node) > 1,
                       files_changed |-> DictGet(node_data, "files_changed", <<>>),
                       analysis |-> DictGet(node_data, "analysis", EmptyText)]]]

(* graph.edges(): by source in node order, then in adjacency order *)
EdgeView(G) ==
    Flatten([i \in 1..Len(G.nodes) |->
                LET succ == Successors(G, G.nodes[i])
                IN  [j \in 1..Len(succ) |-> <<G.nodes[i], succ[j]>>]])

(* (a + b) / 2 of two fractions *)
Midpoint(a, b) == Fraction(a.num * b.den + b.num * a.den, 2 * a.den * b.den)

CalculateControlPoint(source_pos, target_pos) ==
    LET mid_x == Midpoint(source_pos.x, target_pos.x)
        mid_y == Midpoint(source_pos.y, target_pos.y)
    IN  [x |-> Fraction(mid_x.num + CurveOffset * mid_x.den, mid_x.den),
         y |-> mid_y,
         z |-> Fraction(source_pos.z + target_pos.z, 2)]

ProcessEdges(G, lay) ==
    LET es == EdgeView(G)
    IN  [i \in 1..Len(es) |->
            [source |-> es[i][1], target |-> es[i][2],
             controlPoint |-> CalculateControlPoint(lay[es[i][1]], lay[es[i][2]]),
             data |-> [is_merge |-> InDegree(G, es[i][2]) > 1]]]

NoLayout == [set |-> FALSE, pos |-> <<>>]

NoViz == [set |-> FALSE]

(* self.layout after process_for_visualization *)
LayoutAfter(G, old) ==
    IF G.nodes = <<>> THEN old ELSE [set |-> TRUE, pos |-> CalculateLayout(G)]

(* self.graph after process_for_visualization *)
GraphAfter(G) == IF G.nodes = <<>> THEN G ELSE GraphAfterLayout(G)

(* the value process_for_visualization returns; lay is self.layout as     *)
(* line 46 left it                                                         *)
ProcessForVisualization(G, lay) ==
    IF G.nodes = <<>>
    THEN [set |-> TRUE, nodes |-> <<>>, edges |-> <<>>, metrics |-> CalculateMetrics(G)]
    ELSE [set |-> TRUE, nodes |-> ProcessNodes(G, lay.pos),
          edges |-> ProcessEdges(G, lay.pos), metrics |-> CalculateMetrics(G)]

----------------------------------------------------------------------------
(* analyze_repository *)

NoReturn == [kind |-> "none", ref |-> "none"]

(* the graph object analyze_repository returned: self.commit_graph itself  *)
(* or a fresh nx.DiGraph()                                                 *)
RetGraph == IF ret.ref = "self" THEN commit_graph ELSE EmptyGraph

NoArchive == [written |-> FALSE]

(* the except clause returning the graph under construction *)
ExceptReturnSelf == [kind |-> "graph", ref |-> "self"]

(* lines 111-113: the except clause returns a fresh nx.DiGraph() *)
ExceptReturn == [kind |-> "graph", ref |-> "fresh"]

(* author_counts in first-seen order, then max by count: the first author  *)
(* of that order whose count is the largest                                *)
RECURSIVE FirstSeen(_, _, _)
FirstSeen(cs, i, order) ==
    IF i > Len(cs) THEN order
    ELSE FirstSeen(cs, i + 1,
                   IF cs[i].author \in Range(order) THEN order
                   ELSE Append(order, cs[i].author))

AuthorCount(cs, a) == Cardinality({i \in 1..Len(cs) : cs[i].author = a})

(* the author whose running count is the first to reach the largest count *)
MainAuthorFirstToReach(cs) ==
    LET names == {cs[i].author : i \in 1..Len(cs)}
        top == MaxOver({AuthorCount(cs, a) : a \in names})
        reach(a) == CHOOSE i \in 1..Len(cs) :
                        /\ cs[i].author = a
                        /\ Cardinality({j \in 1..i : cs[j].author = a}) = top
        tied == {a \in names : AuthorCount(cs, a) = top}
    IN  CHOOSE a \in tied : \A b \in tied : reach(a) <= reach(b)

MainAuthor(cs) ==
    LET order == FirstSeen(cs, 1, <<>>)
        k == CHOOSE k \in 1..Len(order) :
                 /\ \A j \in 1..Len(order) :
                        AuthorCount(cs, order[j]) <= AuthorCount(cs, order[k])
                 /\ \A j \in 1..(k - 1) :
                        AuthorCount(cs, order[j]) < AuthorCount(cs, order[k])
    IN  order[k]

(* _fetch_commits raises on a non-200 answer: the except clause returns a  *)
(* fresh graph                                                             *)
FetchCommitsFail ==
    /\ pc = "fetch"
    /\ pc' = "returned"
    /\ session_open' = FALSE
    /\ ret' = ExceptReturn
    /\ UNCHANGED <<commits, outcome, fetched, commit_graph, commit_summaries, task,
                   archive, http, engineVars, libraryVars>>

(* _fetch_commits answers: lines 73-96, up to the await of gather; a       *)
(* KeyError of the construction loop is caught by the except clause        *)
FetchCommitsOK ==
    /\ pc = "fetch"
    /\ fetched' = TRUE
    /\ IF commits = <<>>
       THEN /\ pc' = "returned"
            /\ session_open' = FALSE
            /\ ret' = [kind |-> "tuple", ref |-> "self"]
            /\ UNCHANGED <<commit_graph, task>>
       ELSE IF BuildRaises(commits)
       THEN /\ pc' = "returned"
            /\ session_open' = FALSE
            /\ commit_graph' = BuildGraph(commits)
            /\ ret' = ExceptReturn
            /\ UNCHANGED task
       ELSE /\ pc' = "gather"
            /\ commit_graph' = BuildGraph(commits)
            /\ task' = [s \in PageShas(commits) |-> NewTask]
            /\ UNCHANGED <<session_open, ret>>
    /\ UNCHANGED <<commits, outcome, commit_summaries, archive, http, engineVars, libraryVars>>

(* gather re-raises the first exception of a task; the other tasks are     *)
(* left running                                                            *)
GatherRaise ==
    /\ pc = "gather"
    /\ \E s \in DOMAIN task : task[s].pc = "raised"
    /\ pc' = "returned"
    /\ session_open' = FALSE
    /\ ret' = ExceptReturn
    /\ UNCHANGED <<commits, outcome, fetched, commit_graph, commit_summaries, task,
                   archive, http, engineVars, libraryVars>>

(* every task returned: lines 98-109; _save_commit_summaries writes the    *)
(* file or raises (OSError, e.g. an author name holding a path separator)  *)
GatherDone ==
    /\ pc = "gather"
    /\ \A s \in DOMAIN task : task[s].pc = "done"
    /\ pc' = "returned"
    /\ session_open' = FALSE
    /\ \E saved \in BOOLEAN :
          IF saved
          THEN /\ archive' = [written |-> TRUE, author |-> MainAuthor(commits),
                              summaries |-> commit_summaries]
               /\ ret' = [kind |-> "graph", ref |-> "self"]
          ELSE /\ archive' = archive
               /\ ret' = ExceptReturn
    /\ UNCHANGED <<commits, outcome, fetched, commit_graph, commit_summaries, task,
                   http, engineVars, libraryVars>>

----------------------------------------------------------------------------
(* routes.analyze_repository, lines 107-151: every exception of the inner  *)
(* try, the 404 included, is answered as 500                               *)

Route ==
    /\ pc = "returned"
    /\ pc' = "responded"
    /\ IF ret.kind = "tuple" \/ RetGraph.nodes = <<>>
       THEN /\ http' = 500
            /\ UNCHANGED engineVars
       ELSE /\ graph' = GraphAfter(RetGraph)
            /\ layout' = LayoutAfter(RetGraph, NoLayout)
            /\ viz' = ProcessForVisualization(RetGraph, layout')
            /\ http' = IF viz'.nodes = <<>> \/ viz'.edges = <<>> THEN 500 ELSE 200
    /\ UNCHANGED <<commits, outcome, fetched, commit_graph, commit_summaries, task,
                   session_open, ret, archive, libraryVars>>

----------------------------------------------------------------------------
(* Spec: one run of analyze_repository and its route handler *)

(* the answers for a page: no request is made for a malformed page; for a  *)
(* page of more than MaxTasks records every detail fetch fails, so that a  *)
(* task is one step                                                       *)
OutcomesOf(cs) ==
    IF ~WellFormed(cs) THEN {<<>>}
    ELSE IF Len(cs) > MaxTasks
    THEN {[s \in PageShas(cs) |->
              [detail |-> "fail", nfiles |-> 0, code |-> "ok", gpt |-> "ok"]]}
    ELSE [PageShas(cs) -> Outcomes]

Init ==
    /\ commits \in Pages(MaxTasks, 1, Authors)
                    \cup MalformedPages(MaxCommits, 1, {"ann"})
                    \cup AuthorPages(MaxTasks, MaxAuthorPage, Authors)
    /\ outcome \in OutcomesOf(commits)
    /\ fetched = FALSE
    /\ pc = "fetch"
    /\ commit_graph = EmptyGraph
    /\ commit_summaries = <<>>
    /\ task = <<>>
    /\ session_open = TRUE
    /\ ret = NoReturn
    /\ archive = NoArchive
    /\ http = 0
    /\ graph = EmptyGraph
    /\ layout = NoLayout
    /\ viz = NoViz
    /\ nx_trivial_paths \in BOOLEAN
    /\ hash_seed \in HashSeeds

Next ==
    \/ FetchCommitsFail
    \/ FetchCommitsOK
    \/ \E s \in DOMAIN task : TaskGet(s)
    \/ \E s \in DOMAIN task : TaskCode(s)
    \/ \E s \in DOMAIN task : TaskGpt(s)
    \/ GatherRaise
    \/ GatherDone
    \/ Route

Spec == Init /\ [][Next]_vars

----------------------------------------------------------------------------
(* SpecLayout: the graph construction of analyze_repository on a page,     *)
(* then GraphProcessor(graph).process_for_visualization()                  *)

(* two disjoint chains of a and b commits, newest record first *)
TwoChainsPage(a, b) ==
    [i \in 1..(a + b) |->
        Record(i, IF i = a \/ i = a + b THEN <<>> ELSE <<i + 1>>, "ann")]

InitLayout ==
    /\ commits \in Pages(MaxCommits, MaxParents, {"ann"}) \cup {TwoChainsPage(3, 5)}
    /\ outcome = <<>>
    /\ fetched = TRUE
    /\ pc = "build"
    /\ commit_graph = EmptyGraph
    /\ commit_summaries = <<>>
    /\ task = <<>>
    /\ session_open = FALSE
    /\ ret = NoReturn
    /\ archive = NoArchive
    /\ http = 0
    /\ graph = EmptyGraph
    /\ layout = NoLayout
    /\ viz = NoViz
    /\ nx_trivial_paths \in BOOLEAN
    /\ hash_seed \in HashSeeds

(* lines 77-93 of analyze_repository, handed to GraphProcessor.__init__ *)
Build ==
    /\ pc = "build"
    /\ pc' = "engine"
    /\ commit_graph' = BuildGraph(commits)
    /\ graph' = commit_graph'
    /\ UNCHANGED <<commits, outcome, fetched, commit_summaries, task, session_open,
                   ret, archive, http, layout, viz, libraryVars>>

Process ==
    /\ pc = "engine"
    /\ pc' = "processed"
    /\ layout' = LayoutAfter(graph, layout)
    /\ viz' = ProcessForVisualization(graph, layout')
    /\ graph' = GraphAfter(graph)
    /\ UNCHANGED <<commits, outcome, fetched, commit_graph, commit_summaries, task,
                   session_open, ret, archive, http, libraryVars>>

(* process_for_visualization called a second time on the same processor *)
ProcessAgain ==
    /\ pc = "processed"
    /\ pc' = "processed again"
    /\ layout' = LayoutAfter(graph, layout)
    /\ viz' = ProcessForVisualization(graph, layout')
    /\ graph' = GraphAfter(graph)
    /\ UNCHANGED <<commits, outcome, fetched, commit_graph, commit_summaries, task,
                   session_open, ret, archive, http, libraryVars>>

NextLayout == Build \/ Process \/ ProcessAgain

SpecLayout == InitLayout /\ [][NextLayout]_vars

----------------------------------------------------------------------------
(* Vocabulary of the claims about analyze_repository *)

Returned == pc \in {"returned", "responded"}

TasksStarted == task # <<>>

AllTasksDone == TasksStarted /\ \A s \in DOMAIN task : task[s].pc = "done"

DetailFailed(s) == outcome[s].detail = "fail"

(* the summarizer is asked for s and answers with an error *)
SummarizerError(s) ==
    /\ outcome[s].detail = "ok"
    /\ outcome[s].nfiles > 0
    /\ outcome[s].gpt # "ok"

SummarizerMalformed(s) == SummarizerError(s) /\ outcome[s].gpt = "malformed"

(* the four attributes an enrichment of s writes, from the answers for s *)
EnrichedData(s) ==
    LET files == DetailFiles(s, outcome[s].nfiles)
    IN  [files_changed |-> [j \in 1..Len(files) |-> Text("file", s, j, 8)],
         files_count |-> outcome[s].nfiles,
         analysis |-> IF outcome[s].nfiles = 0 THEN NoChanges
                      ELSE IF outcome[s].gpt = "ok" THEN SummaryOf(GptPrompt(files))
                      ELSE AnalysisFailed,
         code |-> FetchCommitCode(s, outcome[s])]

EnrichmentKeys == {"files_changed", "files_count", "analysis", "code"}

CarriesOwnData(G, s) ==
    /\ s \in NodeSet(G)
    /\ EnrichmentKeys \subseteq DOMAIN G.attrs[s]
    /\ \A k \in EnrichmentKeys : G.attrs[s][k] = EnrichedData(s)[k]

HasSentinelAnalysis(G, s) ==
    /\ s \in NodeSet(G)
    /\ "analysis" \in DOMAIN G.attrs[s]
    /\ G.attrs[s].analysis = AnalysisFailed

(* C1: when exactly one commit's detail fetch fails (and nothing else      *)
(* does), then once every enrichment has finished the failed commit's node *)
(* has analysis equal to the failure sentinel and every other node carries *)
(* its own enriched data.                                                  *)
C1_SentinelOnDetailFailure ==
    ( /\ AllTasksDone
      /\ Cardinality({s \in DOMAIN task : DetailFailed(s)}) = 1
      /\ \A s \in DOMAIN task : ~SummarizerError(s) )
    => \A s \in DOMAIN task :
          IF DetailFailed(s) THEN HasSentinelAnalysis(commit_graph, s)
          ELSE CarriesOwnData(commit_graph, s)

(* C2: when the summarizer errs on exactly one commit (non-success status  *)
(* or malformed body) and the archive write does not fail, the run returns *)
(* the graph of the whole page, with analysis "Analysis failed" on that    *)
(* commit and every other commit whose detail fetch succeeded enriched.    *)
C2_SummarizerErrorIsolated ==
    ( /\ Returned
      /\ TasksStarted
      /\ Cardinality({s \in DOMAIN task : SummarizerError(s)}) = 1
      /\ ~(AllTasksDone /\ ~archive.written) )
    => /\ ret = [kind |-> "graph", ref |-> "self"]
       /\ NodeSet(RetGraph) = PageShas(commits)
       /\ \A s \in DOMAIN task :
             /\ SummarizerError(s) => HasSentinelAnalysis(RetGraph, s)
             /\ ~DetailFailed(s) => CarriesOwnData(RetGraph, s)

ZeroMetrics ==
    [total_commits |-> 0, max_depth |-> 0, branching_factor |-> Fraction(0, 1),
     leaf_commits |-> 0, merge_commits |-> 0,
     average_branch_length |-> Fraction(0, 1), commit_frequency |-> <<>>]

(* C3: when the fetch returns zero commits, analyze_repository returns an  *)
(* empty graph, the kind of value it returns for a non-empty page, and the *)
(* handler answers with empty node and edge lists and zero metrics.        *)
C3_EmptyPageIsNotAnError ==
    (fetched /\ commits = <<>>)
    => /\ Returned => (ret.kind = "graph" /\ RetGraph = EmptyGraph)
       /\ pc = "responded" =>
             /\ http = 200
             /\ viz = [set |-> TRUE, nodes |-> <<>>, edges |-> <<>>,
                       metrics |-> ZeroMetrics]

(* C4: whether or not the archive write fails, once every enrichment task  *)
(* has returned the run returns the enriched graph.                        *)
C4_PersistFailureHarmless ==
    (Returned /\ AllTasksDone)
    => (ret = [kind |-> "graph", ref |-> "self"] /\ RetGraph = commit_graph)

(* C5: analyze_repository has not returned while an enrichment task of the *)
(* run is unfinished, and no step taken after it returned writes a node or *)
(* appends a summary record.                                               *)
C5_Barrier ==
    [][ Returned =>
          /\ \A s \in DOMAIN task : task[s].pc \in {"done", "raised"}
          /\ commit_graph' = commit_graph
          /\ commit_summaries' = commit_summaries ]_vars

(* the graph a run returns, from the page, the answers and whether the     *)
(* archive was written: every node of the page, enriched where the detail  *)
(* fetch succeeded; a fresh graph when a task raises or the write fails    *)
ExpectedReturn ==
    IF \/ \E s \in DOMAIN task : SummarizerMalformed(s)
       \/ (AllTasksDone /\ ~archive.written)
    THEN EmptyGraph
    ELSE [nodes |-> BuildGraph(commits).nodes,
          edges |-> BuildGraph(commits).edges,
          attrs |-> [s \in PageShas(commits) |->
                        IF DetailFailed(s) THEN NodeAttrsOf(CommitOf(s))
                        ELSE DictUpdate(NodeAttrsOf(CommitOf(s)), EnrichedData(s))]]

C6_Final == (Returned /\ TasksStarted) => RetGraph = ExpectedReturn

C6_Step ==
    /\ pc # "fetch" =>
          /\ commit_graph'.nodes = commit_graph.nodes
          /\ commit_graph'.edges = commit_graph.edges
    /\ \A s \in NodeSet(commit_graph) :
          commit_graph'.attrs[s] # commit_graph.attrs[s] =>
             /\ task[s].pc \in {"code", "gpt"}
             /\ task'[s].pc = "done"
             /\ \A t \in DOMAIN task \ {s} : task'[t] = task[t]
             /\ DOMAIN commit_graph.attrs[s] \cap EnrichmentKeys = {}

(* C6: a step that changes a node's attributes is a step of the task of    *)
(* that node's SHA, and the first write to that node; no step after the    *)
(* graph is built changes its nodes or edges; and the graph a run returns  *)
(* is a function of the page and of the answers alone, whatever the order  *)
(* in which the tasks completed.                                           *)
C6_DisjointWrites == []C6_Final /\ [][C6_Step]_vars

(* both tasks of a two-commit page wrote, the second commit's first *)
C6_Witness ==
    /\ Returned
    /\ ret.ref = "self"
    /\ Len(commit_summaries) = 2
    /\ commit_summaries[1].sha = 2
    /\ commit_summaries[2].sha = 1
    /\ CarriesOwnData(RetGraph, 1)
    /\ CarriesOwnData(RetGraph, 2)

----------------------------------------------------------------------------
(* Vocabulary of the claims about the graph, the layout and the metrics *)

Built == pc \in {"engine", "processed"}

Processed == pc \in {"processed", "processed again"}

ParentsOf(c) == Range(CommitOf(c).parents)

(* no edge lies on a directed cycle (a self-loop included) *)
Acyclic(G) == \A e \in EdgeSet(G) : ShortestPathLength(G, e[2], e[1]) < 0

(* C7: the built graph has one node per record SHA, the edge p -> c exactly *)
(* when c's record lists p and p is the SHA of a record of the page (each  *)
(* edge once), is_initial exactly on the records with an empty parent      *)
(* list, and in-degree 0 with is_initial false on a record all of whose    *)
(* parents are absent from the page.                                       *)
C7_BuilderEdges ==
    Built =>
       /\ NodeSet(graph) = PageShas(commits)
       /\ Len(graph.nodes) = Len(commits)
       /\ \A p, c \in 0..Len(commits) :
             <<p, c>> \in EdgeSet(graph) <=>
                (c \in PageShas(commits) /\ p \in PageShas(commits) /\ p \in ParentsOf(c))
       /\ Len(graph.edges) = Cardinality(EdgeSet(graph))
       /\ \A c \in PageShas(commits) :
             /\ graph.attrs[c].is_initial = (CommitOf(c).parents = <<>>)
             /\ (ParentsOf(c) # {} /\ ParentsOf(c) \cap PageShas(commits) = {}) =>
                   (InDegree(graph, c) = 0 /\ ~graph.attrs[c].is_initial)

(* a page whose first record lists a later record and an absent SHA as      *)
(* parents, and whose last record lists only the absent SHA                *)
C7_Witness ==
    /\ Built
    /\ Len(commits) = 3
    /\ commits[1].parents = <<2, 0>>
    /\ commits[2].parents = <<3>>
    /\ commits[3].parents = <<0>>
    /\ EdgeSet(graph) = {<<2, 1>>, <<3, 2>>}
    /\ InDegree(graph, 3) = 0
    /\ ~graph.attrs[3].is_initial

(* C8: in the layout of an acyclic graph every edge parent -> child has    *)
(* level(child) > level(parent) and z(child) > z(parent).                  *)
C8_ChildBelowParent ==
    (Processed /\ Acyclic(graph)) =>
       \A e \in EdgeSet(graph) :
          /\ Levels(graph)[e[2]] > Levels(graph)[e[1]]
          /\ layout.pos[e[2]].z > layout.pos[e[1]].z

RECURSIVE PathsOfLength(_, _)
(* the simple paths of k nodes that start at an in-degree-0 node *)
PathsOfLength(G, k) ==
    IF k <= 1 THEN {<<n>> : n \in {m \in NodeSet(G) : InDegree(G, m) = 0}}
    ELSE UNION {{Append(q, m) : m \in {x \in NodeSet(G) :
                                         /\ x \notin Range(q)
                                         /\ <<q[Len(q)], x>> \in EdgeSet(G)}} :
                   q \in PathsOfLength(G, k - 1)}

(* the orders in which the nodes of G form one chain root -> ... -> tip *)
ChainOrders(G) ==
    {q \in PathsOfLength(G, Len(G.nodes)) :
        /\ Len(q) = Len(G.nodes)
        /\ EdgeSet(G) = {<<q[i], q[i + 1]>> : i \in 1..(Len(q) - 1)}}

(* C9: for a linear chain of N >= 1 commits, max_depth = N - 1,            *)
(* merge_commits = 0, branching_factor = 1, the level of the i-th commit   *)
(* from the root is i - 1, and z strictly increases from root to tip.      *)
C9_LinearChain ==
    Processed =>
       \A q \in ChainOrders(graph) :
          Len(q) >= 1 =>
             /\ viz.metrics.max_depth = Len(q) - 1
             /\ viz.metrics.merge_commits = 0
             /\ FracEq(viz.metrics.branching_factor, 1)
             /\ \A i \in 1..Len(q) :
                   /\ Levels(graph)[q[i]] = i - 1
                   /\ layout.pos[q[i]].z = ZScale * (i - 1)
             /\ \A i \in 1..(Len(q) - 1) : layout.pos[q[i]].z < layout.pos[q[i + 1]].z

(* a chain of three commits, newest record first *)
C9_Witness ==
    /\ Processed
    /\ Len(commits) = 3
    /\ <<3, 2, 1>> \in ChainOrders(graph)
    /\ viz.metrics.max_depth = 2
    /\ layout.pos[1].z = 2 * ZScale

(* the simple paths from an in-degree-0 node to an out-degree-0 node; a    *)
(* node that is both is joined to itself by the one-node path where the   *)
(* installed networkx takes that for a simple path                        *)
RootToLeafPaths(G) ==
    {q \in UNION {PathsOfLength(G, k) : k \in 1..Len(G.nodes)} :
        /\ OutDegree(G, q[Len(q)]) = 0
        /\ Len(q) = 1 => nx_trivial_paths}

RECURSIVE TotalNodes(_)
TotalNodes(P) ==
    IF P = {} THEN 0
    ELSE LET q == CHOOSE q \in P : TRUE IN Len(q) + TotalNodes(P \ {q})

TwoChains == BuildGraph(TwoChainsPage(3, 5))

(* C10: average_branch_length is the total node count of the simple paths  *)
(* from an in-degree-0 node to an out-degree-0 node divided by the number  *)
(* of these paths, 0 when there is none; two disjoint chains of 3 and 5    *)
(* nodes give 4.                                                           *)
C10_AverageBranchLength ==
    Processed =>
       LET P == RootToLeafPaths(graph)
           avg == viz.metrics.average_branch_length
       IN  /\ P = {} => FracEq(avg, 0)
           /\ P # {} => avg.num * Cardinality(P) = TotalNodes(P) * avg.den
           /\ avg.den > 0
           /\ graph = TwoChains => FracEq(avg, 4)

C10_Witness ==
    /\ Processed
    /\ graph = TwoChains
    /\ Cardinality(RootToLeafPaths(graph)) = 2
    /\ TotalNodes(RootToLeafPaths(graph)) = 8
    /\ FracEq(viz.metrics.average_branch_length, 4)

(* C11: for an empty graph process_for_visualization returns an empty node *)
(* list, an empty edge list and metrics whose total_commits, max_depth,    *)
(* branching_factor, leaf_commits, merge_commits and average_branch_length *)
(* are 0 and whose commit_frequency is the empty mapping; no quotient has  *)
(* a zero denominator and no layout is computed.                           *)
C11_EmptyGraph ==
    (Processed /\ graph.nodes = <<>>) =>
       /\ viz.set
       /\ viz.nodes = <<>>
       /\ viz.edges = <<>>
       /\ viz.metrics.total_commits = 0
       /\ viz.metrics.max_depth = 0
       /\ viz.metrics.branching_factor.den > 0
       /\ FracEq(viz.metrics.branching_factor, 0)
       /\ viz.metrics.leaf_commits = 0
       /\ viz.metrics.merge_commits = 0
       /\ viz.metrics.average_branch_length.den > 0
       /\ FracEq(viz.metrics.average_branch_length, 0)
       /\ DOMAIN viz.metrics.commit_frequency = {}
       /\ layout = NoLayout

(* the empty page: the graph handed to the processor has no node *)
C11_Witness ==
    /\ Processed
    /\ commits = <<>>
    /\ graph = EmptyGraph
    /\ viz.set
    /\ viz.nodes = <<>>
    /\ viz.metrics.total_commits = 0

C14_NoSelfLoopNoCycle ==
    Built =>
       /\ \A n \in NodeSet(graph) : <<n, n>> \notin EdgeSet(graph)
       /\ Acyclic(graph)

C16_DepthAgrees ==
    Processed =>
       LET top_level == MaxOver({Levels(graph)[n] : n \in NodeSet(graph)})
           top_z == MaxOver({layout.pos[n].z : n \in NodeSet(graph)})
       IN  /\ (graph.nodes # <<>> /\ InDegreeZero(graph) # <<>>) =>
                  /\ viz.metrics.max_depth = top_level
                  /\ viz.metrics.max_depth * ZScale = top_z
           /\ (graph.nodes # <<>> /\ viz.metrics.max_depth * ZScale # top_z) =>
                  \A n \in NodeSet(graph) : InDegree(graph, n) > 0

(* two roots at different depths: an isolated commit first, then a parent  *)
(* and its child                                                           *)
C16_Witness ==
    /\ Processed
    /\ graph.nodes = <<1, 2, 3>>
    /\ EdgeSet(graph) = {<<3, 2>>}
    /\ InDegreeZero(graph) = <<1, 3>>
    /\ viz.metrics.max_depth = 1
    /\ layout.pos[2].z = ZScale

RecordsOf(s) == {i \in 1..Len(commit_summaries) : commit_summaries[i].sha = s}

(* C17: once analyze_repository is past the wait for the enrichment tasks, *)
(* commit_summaries holds exactly one record for each commit whose detail  *)
(* fetch succeeded and none for any other; a node has analysis,            *)
(* files_changed and code exactly when a record has its SHA; and that      *)
(* record's explanation, code and files edited are the node's analysis,    *)
(* code and files_count, files_count being the length of files_changed.    *)
C17_SummariesMatchNodes ==
    (Returned /\ TasksStarted) =>
       /\ \A s \in DOMAIN task :
              Cardinality(RecordsOf(s)) = IF DetailFailed(s) THEN 0 ELSE 1
       /\ \A s \in NodeSet(commit_graph) :
              LET a == commit_graph.attrs[s]
              IN  /\ ({"analysis", "files_changed", "code"} \subseteq DOMAIN a)
                        <=> RecordsOf(s) # {}
                  /\ RecordsOf(s) = {} =>
                        {"analysis", "files_changed", "code"} \cap DOMAIN a = {}
       /\ \A i \in 1..Len(commit_summaries) :
              LET r == commit_summaries[i]
                  a == commit_graph.attrs[r.sha]
              IN  /\ EnrichmentKeys \subseteq DOMAIN a
                  /\ r.explanation = a.analysis
                  /\ r.code = a.code
                  /\ r.files_edited = a.files_count
                  /\ a.files_count = Len(a.files_changed)

====
